---- MODULE Spec2Model ----
(***************************************************************************)
(* Model of app.py: the Outline Requester (get_slide_structure_from_llm),  *)
(* the Deck Builder (create_presentation) and the button handler that      *)
(* runs them in sequence.                                                  *)
(*                                                                         *)
(* Text is a sequence of one-character strings.  JSON texts are read by a  *)
(* parser written out below; the alphabet used by the replies has no       *)
(* backslash, sign, fraction or exponent, so string escapes and            *)
(* non-integer numbers are outside the model.  Python values are tagged    *)
(* records; None is the value of kind "null".                              *)
(***************************************************************************)
EXTENDS Integers, Sequences, FiniteSets, TLC

\* ---------------------------------------------------------------- bounds
\* Longest outline (number of slide records) the LLM replies with.
MaxRecords == 2
\* Most layouts a template holds.
MaxLayouts == 2
\* Most slides a template already contains.
MaxTemplateSlides == 1

\* ------------------------------------------------------ program constants
\* raw_content.strip()[7:-3]
FenceOpenLen == 7
FenceCloseLen == 3
\* prs.slide_layouts[1]
FallbackIndex == 1
\* p.level = 1
BulletLevel == 1
\* placeholder_format.idx >= 1
BodyMinIdx == 1

\* ------------------------------------------------------------------ text
Quote == "\""
\* characters removed by str.strip() and skipped by the JSON scanner
Whitespace == {" ", "\n"}
\* characters json rejects inside a string literal
ControlChars == {"\n"}
Digits == {"0", "1", "2", "3", "4", "5", "6", "7", "8", "9"}

DigitVal(c) == CASE c = "0" -> 0 [] c = "1" -> 1 [] c = "2" -> 2 [] c = "3" -> 3
                 [] c = "4" -> 4 [] c = "5" -> 5 [] c = "6" -> 6 [] c = "7" -> 7
                 [] c = "8" -> 8 [] c = "9" -> 9

\* s[i:] begins with p (1-based i)
MatchAt(s, i, p) ==
    /\ i + Len(p) - 1 <= Len(s)
    /\ \A k \in 1..Len(p) : s[i + k - 1] = p[k]

\* str.startswith
StartsWith(s, p) == MatchAt(s, 1, p)

\* `p in s` for strings
Contains(s, p) == \E i \in 1..(Len(s) + 1) : MatchAt(s, i, p)

RECURSIVE LStrip(_)
LStrip(s) == IF s # <<>> /\ Head(s) \in Whitespace THEN LStrip(Tail(s)) ELSE s

RECURSIVE RStrip(_)
RStrip(s) ==
    IF s # <<>> /\ s[Len(s)] \in Whitespace THEN RStrip(SubSeq(s, 1, Len(s) - 1)) ELSE s

\* str.strip()
Strip(s) == RStrip(LStrip(s))

\* Python s[a:-b] for a, b > 0: empty when the two cuts meet or cross
Slice(s, a, b) == SubSeq(s, a + 1, Len(s) - b)

\* ----------------------------------------------------- Python/JSON values
\* One shape for every value, so that any two values can be compared: the
\* payload of a kind lives in its own field and the other fields are empty.
JVal(k, n, s, it, mem) == [kind |-> k, num |-> n, str |-> s, items |-> it, members |-> mem]
JNull == JVal("null", 0, <<>>, <<>>, <<>>)
JNum(n) == JVal("num", n, <<>>, <<>>, <<>>)
JStr(s) == JVal("str", 0, s, <<>>, <<>>)
JBool(b) == JVal("bool", IF b THEN 1 ELSE 0, <<>>, <<>>, <<>>)
JArr(items) == JVal("arr", 0, <<>>, items, <<>>)
\* an object is its members [key, val] in insertion order, keys distinct
JObj(members) == JVal("obj", 0, <<>>, <<>>, members)
None == JNull

\* dict[key] = val: a repeated key keeps its place and takes the new value
DictSet(members, key, v) ==
    IF \E i \in 1..Len(members) : members[i].key = key
    THEN [i \in 1..Len(members) |->
             IF members[i].key = key THEN [key |-> key, val |-> v] ELSE members[i]]
    ELSE Append(members, [key |-> key, val |-> v])

\* dict.get(key, default)
DictGet(members, key, default) ==
    IF \E i \in 1..Len(members) : members[i].key = key
    THEN members[CHOOSE i \in 1..Len(members) : members[i].key = key].val
    ELSE default

\* bool(v)
Truthy(v) ==
    CASE v.kind = "null" -> FALSE
      [] v.kind \in {"num", "bool"} -> v.num # 0
      [] v.kind = "str" -> v.str # <<>>
      [] v.kind = "arr" -> v.items # <<>>
      [] v.kind = "obj" -> v.members # <<>>

\* ------------------------------------------------------------ json.loads
Fail == [ok |-> FALSE, val |-> JNull, next |-> 0]
Ok(v, i) == [ok |-> TRUE, val |-> v, next |-> i]

RECURSIVE SkipWS(_, _)
SkipWS(s, i) == IF i <= Len(s) /\ s[i] \in Whitespace THEN SkipWS(s, i + 1) ELSE i

\* the string literal whose opening quote is at i - 1
RECURSIVE ScanString(_, _, _)
ScanString(s, i, acc) ==
    IF i > Len(s) THEN Fail
    ELSE IF s[i] = Quote THEN Ok(JStr(acc), i + 1)
    ELSE IF s[i] \in ControlChars THEN Fail
    ELSE ScanString(s, i + 1, Append(acc, s[i]))

\* 0 | [1-9][0-9]*
RECURSIVE ScanDigits(_, _, _)
ScanDigits(s, i, n) ==
    IF i <= Len(s) /\ s[i] \in Digits
    THEN ScanDigits(s, i + 1, 10 * n + DigitVal(s[i]))
    ELSE Ok(JNum(n), i)

ScanNumber(s, i) == IF s[i] = "0" THEN Ok(JNum(0), i + 1) ELSE ScanDigits(s, i, 0)

RECURSIVE ParseValue(_, _)
RECURSIVE ParseElems(_, _, _)
RECURSIVE ParseMembers(_, _, _)

ParseValue(s, i0) ==
    LET i == SkipWS(s, i0) IN
    IF i > Len(s) THEN Fail
    ELSE IF s[i] = "[" THEN
        LET j == SkipWS(s, i + 1) IN
        IF j <= Len(s) /\ s[j] = "]" THEN Ok(JArr(<<>>), j + 1)
        ELSE ParseElems(s, j, <<>>)
    ELSE IF s[i] = "{" THEN
        LET j == SkipWS(s, i + 1) IN
        IF j <= Len(s) /\ s[j] = "}" THEN Ok(JObj(<<>>), j + 1)
        ELSE ParseMembers(s, j, <<>>)
    ELSE IF s[i] = Quote THEN ScanString(s, i + 1, <<>>)
    ELSE IF s[i] \in Digits THEN ScanNumber(s, i)
    ELSE IF MatchAt(s, i, <<"n", "u", "l", "l">>) THEN Ok(JNull, i + 4)
    ELSE IF MatchAt(s, i, <<"t", "r", "u", "e">>) THEN Ok(JBool(TRUE), i + 4)
    ELSE IF MatchAt(s, i, <<"f", "a", "l", "s", "e">>) THEN Ok(JBool(FALSE), i + 5)
    ELSE Fail

ParseElems(s, i, acc) ==
    LET r == ParseValue(s, i)
        j == SkipWS(s, r.next)
    IN  IF ~r.ok \/ j > Len(s) THEN Fail
        ELSE IF s[j] = "]" THEN Ok(JArr(Append(acc, r.val)), j + 1)
        ELSE IF s[j] = "," THEN ParseElems(s, j + 1, Append(acc, r.val))
        ELSE Fail

ParseMembers(s, i, acc) ==
    IF i > Len(s) \/ s[i] # Quote THEN Fail
    ELSE
        LET k == ScanString(s, i + 1, <<>>)
            c == SkipWS(s, k.next)
            r == ParseValue(s, c + 1)
            j == SkipWS(s, r.next)
        IN  IF ~k.ok \/ c > Len(s) THEN Fail
            ELSE IF s[c] # ":" THEN Fail
            ELSE IF ~r.ok \/ j > Len(s) THEN Fail
            ELSE IF s[j] = "}" THEN Ok(JObj(DictSet(acc, k.val.str, r.val)), j + 1)
            ELSE IF s[j] = ","
                 THEN ParseMembers(s, SkipWS(s, j + 1), DictSet(acc, k.val.str, r.val))
            ELSE Fail

\* json.loads(s): one value with nothing but whitespace around it
Loads(s) ==
    LET r == ParseValue(s, 1) IN
    IF r.ok /\ SkipWS(s, r.next) > Len(s)
    THEN [ok |-> TRUE, val |-> r.val]
    ELSE [ok |-> FALSE, val |-> JNull]

\* --------------------------------------- get_slide_structure_from_llm
\* the grave accent, U+0060: a TLA+ string literal cannot hold the character
\* itself, so this atom stands for it
Backtick == "<grave>"
FenceOpen == <<Backtick, Backtick, Backtick, "j", "s", "o", "n">>
FenceClose == <<Backtick, Backtick, Backtick>>

\* a faulty unwrap, cutting one character too few at the front: C5 must
\* tell it from the code's
UnfenceShort(raw_content) ==
    IF StartsWith(Strip(raw_content), FenceOpen)
    THEN Slice(Strip(raw_content), FenceOpenLen - 1, FenceCloseLen)
    ELSE raw_content

\* lines 42-43: the best-effort unwrap of a fenced reply
Unfence(raw_content) ==
    IF StartsWith(Strip(raw_content), FenceOpen)
    THEN Slice(Strip(raw_content), FenceOpenLen, FenceCloseLen)
    ELSE raw_content

\* st.warning / st.error / st.success
Message(level, origin, cause) == [level |-> level, origin |-> origin, cause |-> cause]

\* a faulty except clause that reports nothing: C7 must tell it from the
\* code's
LLMExceptSilent(messages, cause) ==
    [result |-> None, messages |-> messages]

\* lines 48-51: what the except clause leaves behind
LLMExcept(messages, cause) ==
    [result |-> None, messages |-> Append(messages, Message("error", "llm", cause))]

\* ----------------------------------------------------- create_presentation
TitleWord == <<"T", "i", "t", "l", "e">>
ContentWord == <<"C", "o", "n", "t", "e", "n", "t">>
KeyTitle == <<"t", "i", "t", "l", "e">>
KeyContent == <<"c", "o", "n", "t", "e", "n", "t">>

\* line 68
NameMatches(name) == Contains(name, TitleWord) /\ Contains(name, ContentWord)

\* a faulty selection that falls back to position 0: C2 must tell it from
\* the code's
SelectLayoutFirst(layouts) ==
    IF \E i \in 1..Len(layouts) : NameMatches(layouts[i].name)
    THEN [ok |-> TRUE,
          idx |-> (CHOOSE i \in 1..Len(layouts) :
                      /\ NameMatches(layouts[i].name)
                      /\ \A j \in 1..(i - 1) : ~NameMatches(layouts[j].name)) - 1]
    ELSE IF Len(layouts) >= 1
         THEN [ok |-> TRUE, idx |-> 0]
         ELSE [ok |-> FALSE, idx |-> 0]

\* lines 65-74, with 0-based positions as in the code; ok is FALSE when
\* prs.slide_layouts[1] raises IndexError
SelectLayout(layouts) ==
    IF \E i \in 1..Len(layouts) : NameMatches(layouts[i].name)
    THEN [ok |-> TRUE,
          idx |-> (CHOOSE i \in 1..Len(layouts) :
                      /\ NameMatches(layouts[i].name)
                      /\ \A j \in 1..(i - 1) : ~NameMatches(layouts[j].name)) - 1]
    ELSE IF Len(layouts) >= FallbackIndex + 1
         THEN [ok |-> TRUE, idx |-> FallbackIndex]
         ELSE [ok |-> FALSE, idx |-> 0]

Paragraph(text, level) == [text |-> text, level |-> level]
\* what tf.clear() leaves: one empty paragraph
ClearedBody == <<Paragraph(<<>>, 0)>>

\* prs.slides.add_slide(layout): the layout's placeholders, empty.  The
\* title is the placeholder of idx 0 (slide.shapes.title), the body the first
\* placeholder of idx >= 1 (lines 85-89).
NewSlide(layouts, idx) ==
    LET phs == layouts[idx + 1].placeholders IN
    [new |-> TRUE, layout |-> idx,
     has_title |-> \E k \in 1..Len(phs) : phs[k] = 0,
     title |-> <<>>,
     has_body |-> \E k \in 1..Len(phs) : phs[k] >= BodyMinIdx,
     body |-> ClearedBody]

\* for slide_data in structured_slides: what iteration yields
IterItems(v) ==
    CASE v.kind = "arr" -> [ok |-> TRUE, items |-> v.items]
      [] v.kind = "obj" ->
            [ok |-> TRUE, items |-> [i \in 1..Len(v.members) |-> JStr(v.members[i].key)]]
      [] v.kind = "str" ->
            [ok |-> TRUE, items |-> [i \in 1..Len(v.str) |-> JStr(<<v.str[i]>>)]]
      [] OTHER -> [ok |-> FALSE, items |-> <<>>]

\* slide_data.get(key, default): AttributeError unless slide_data is a dict
Get(slide_data, key, default) ==
    IF slide_data.kind = "obj"
    THEN [ok |-> TRUE, val |-> DictGet(slide_data.members, key, default)]
    ELSE [ok |-> FALSE, val |-> None]

\* lines 81-82
SetTitle(slide, slide_data) ==
    IF ~slide.has_title THEN [ok |-> TRUE, slide |-> slide]
    ELSE LET t == Get(slide_data, KeyTitle, JStr(<<>>)) IN
         IF t.ok /\ t.val.kind = "str"
         THEN [ok |-> TRUE, slide |-> [slide EXCEPT !.title = t.val.str]]
         ELSE [ok |-> FALSE, slide |-> slide]

\* content_points[0], content_points[1:]: the elements of a list, the
\* characters of a str
Points(content_points) ==
    IF content_points.kind = "arr" THEN content_points.items
    ELSE [i \in 1..Len(content_points.str) |-> JStr(<<content_points.str[i]>>)]

\* a faulty guard without the isinstance test: C4 must tell it from the
\* code's
HasPointsAnySequence(content_points) ==
    content_points.kind \in {"arr", "str"} /\ Points(content_points) # <<>>

\* line 96: isinstance(content_points, list) and content_points
HasPoints(content_points) == content_points.kind = "arr" /\ content_points.items # <<>>

\* a faulty population that adds every point as a paragraph after the
\* cleared one: C3 must tell it from the code's
ParagraphsKeepCleared(points) ==
    ClearedBody \o [i \in 1..Len(points) |-> Paragraph(points[i].str, BulletLevel)]

\* lines 97-101 for string points: tf.text = points[0], then one paragraph
\* at level 1 for each further point
Paragraphs(points) ==
    [i \in 1..Len(points) |->
        Paragraph(points[i].str, IF i = 1 THEN 0 ELSE BulletLevel)]

\* lines 91-101; assigning a non-string to .text raises
SetBody(slide, slide_data) ==
    IF ~slide.has_body THEN [ok |-> TRUE, slide |-> slide]
    ELSE LET c == Get(slide_data, KeyContent, JArr(<<>>)) IN
         IF ~c.ok THEN [ok |-> FALSE, slide |-> slide]
         ELSE IF ~HasPoints(c.val)
              THEN [ok |-> TRUE, slide |-> [slide EXCEPT !.body = ClearedBody]]
         ELSE IF \A i \in 1..Len(Points(c.val)) : Points(c.val)[i].kind = "str"
              THEN [ok |-> TRUE, slide |-> [slide EXCEPT !.body = Paragraphs(Points(c.val))]]
              ELSE [ok |-> FALSE, slide |-> slide]

\* a faulty add_slide that puts the new slide first: C1 must tell it from
\* the code's
AddSlideFront(slides, slide) == <<slide>> \o slides

\* line 78: add_slide appends the new slide
AddSlide(slides, slide) == Append(slides, slide)

\* lines 77-101: the slide generation loop over items[i..]; ok is FALSE when
\* an iteration raises
RECURSIVE GenerateSlides(_, _, _, _, _)
GenerateSlides(items, i, layouts, idx, slides) ==
    IF i > Len(items) THEN [ok |-> TRUE, slides |-> slides]
    ELSE LET t == SetTitle(NewSlide(layouts, idx), items[i])
             b == SetBody(t.slide, items[i])
         IN  IF ~t.ok \/ ~b.ok THEN [ok |-> FALSE, slides |-> <<>>]
             ELSE GenerateSlides(items, i + 1, layouts, idx, AddSlide(slides, b.slide))

\* a slide the template already holds
TemplateSlide ==
    [new |-> FALSE, layout |-> 0, has_title |-> FALSE, title |-> <<>>,
     has_body |-> FALSE, body |-> ClearedBody]

\* the BytesIO the function returns, or None
NoBuffer == [present |-> FALSE, layouts |-> <<>>, slides |-> <<>>]

\* a faulty save that drops the template's slides: C9 must tell it from
\* the code's
SaveNewSlidesOnly(layouts, slides) ==
    [present |-> TRUE, layouts |-> layouts, slides |-> SelectSeq(slides, LAMBDA s : s.new)]

\* lines 104-107: prs.save(buffer) writes the whole document
Save(layouts, slides) == [present |-> TRUE, layouts |-> layouts, slides |-> slides]

\* lines 58-111: the buffer, or the cause of the exception the function caught
BuildDeck(structured_slides, template) ==
    LET sel == SelectLayout(template.layouts)
        it == IterItems(structured_slides)
        gen == GenerateSlides(it.items, 1, template.layouts, sel.idx,
                              [i \in 1..template.nslides |-> TemplateSlide])
    IN  IF ~template.opens THEN [ok |-> FALSE, cause |-> "open", buffer |-> NoBuffer]
        ELSE IF ~sel.ok THEN [ok |-> FALSE, cause |-> "layout", buffer |-> NoBuffer]
        ELSE IF ~it.ok \/ ~gen.ok THEN [ok |-> FALSE, cause |-> "slides", buffer |-> NoBuffer]
        ELSE [ok |-> TRUE, cause |-> "", buffer |-> Save(template.layouts, gen.slides)]

\* ------------------------------------------------------- the environment
RECURSIVE JoinComma(_)
JoinComma(texts) ==
    IF texts = <<>> THEN <<>>
    ELSE IF Len(texts) = 1 THEN texts[1]
    ELSE texts[1] \o <<",">> \o JoinComma(Tail(texts))

ArrText(texts) == <<"[">> \o JoinComma(texts) \o <<"]">>

\* the slide records the LLM writes: complete; empty content; no content;
\* no title; content that is a string; a bullet that is a number; a record
\* that is a number
RecordTexts ==
    << <<"{", "\"", "t", "i", "t", "l", "e", "\"", ":", "\"", "A", "\"", ",", "\"", "c", "o", "n", "t", "e", "n", "t", "\"", ":", "[", "\"", "a", "\"", ",", "\"", "b", "\"", ",", "\"", "c", "\"", "]", "}">>,
       <<"{", "\"", "t", "i", "t", "l", "e", "\"", ":", "\"", "B", "\"", ",", "\"", "c", "o", "n", "t", "e", "n", "t", "\"", ":", "[", "]", "}">>,
       <<"{", "\"", "t", "i", "t", "l", "e", "\"", ":", "\"", "C", "\"", "}">>,
       <<"{", "\"", "c", "o", "n", "t", "e", "n", "t", "\"", ":", "[", "\"", "d", "\"", "]", "}">>,
       <<"{", "\"", "t", "i", "t", "l", "e", "\"", ":", "\"", "D", "\"", ",", "\"", "c", "o", "n", "t", "e", "n", "t", "\"", ":", "\"", "e", "\"", "}">>,
       <<"{", "\"", "t", "i", "t", "l", "e", "\"", ":", "\"", "E", "\"", ",", "\"", "c", "o", "n", "t", "e", "n", "t", "\"", ":", "[", "\"", "f", "\"", ",", "7", "]", "}">>,
       <<"7">> >>

OutlineTexts ==
    UNION {{ArrText([i \in 1..n |-> RecordTexts[f[i]]]) : f \in [1..n -> 1..Len(RecordTexts)]} :
              n \in 0..MaxRecords}

\* JSON texts that are no array: null, 0, a number, a string, an empty
\* object, one record on its own
OtherJsonTexts ==
    { <<"n", "u", "l", "l">>, <<"0">>, <<"7">>, <<Quote, "a", "b", Quote>>, <<"{", "}">>,
      RecordTexts[2], <<" ">> \o RecordTexts[3] \o <<"\n">> }

JsonTexts == OutlineTexts \cup OtherJsonTexts

\* how the reply wraps the JSON text: not at all; in the fence; in the fence
\* with line breaks inside; in the fence with whitespace around it; in a
\* fence without the language tag; in a fence that is never closed
Wrap(w, J) ==
    CASE w = "plain" -> J
      [] w = "fenced" -> FenceOpen \o J \o FenceClose
      [] w = "fenced_lines" -> FenceOpen \o <<"\n">> \o J \o <<"\n">> \o FenceClose
      [] w = "fenced_padded" -> <<" ">> \o FenceOpen \o J \o FenceClose \o <<"\n">>
      [] w = "bare_fence" -> FenceClose \o J \o FenceClose
      [] w = "unclosed" -> FenceOpen \o J

Wrappers == {"plain", "fenced", "fenced_lines", "fenced_padded", "bare_fence", "unclosed"}

\* what response.choices[0].message.content can be; the last two are prose
\* and the empty reply
Replies ==
    {Wrap(w, J) : w \in Wrappers, J \in JsonTexts} \cup {<<"S", "u", "r", "e">>, <<>>}

\* the exceptions openai.chat.completions.create raises
LLMErrors == {"network", "auth"}

\* the placeholder idx values of a layout, in document order
Layout(name, placeholders) == [name |-> name, placeholders |-> placeholders]

LayoutKinds ==
    { Layout(<<"T", "i", "t", "l", "e", " ", "a", "n", "d", " ", "C", "o", "n", "t", "e", "n", "t">>, <<0, 1>>),
      Layout(<<"T", "i", "t", "l", "e", " ", "O", "n", "l", "y">>, <<0>>),
      Layout(<<"T", "w", "o", " ", "C", "o", "n", "t", "e", "n", "t">>, <<1, 2>>),
      Layout(<<"B", "l", "a", "n", "k">>, <<>>) }

LayoutLists == UNION {[1..n -> LayoutKinds] : n \in 0..MaxLayouts}

\* what Presentation(template_file) finds in the upload: a file that does
\* not open, or a document
TemplateFiles ==
    {[opens |-> FALSE, layouts |-> <<>>, nslides |-> 0]} \cup
    {[opens |-> TRUE, layouts |-> ls, nslides |-> n] :
        ls \in LayoutLists, n \in 0..MaxTemplateSlides}

\* ----------------------------------------------------------- the handler
\* a faulty validation that forgets the template: C6 must tell it from the
\* code's
ValidateTextAndKey(text, key, template) ==
    IF text = <<>> THEN "text" ELSE IF key = <<>> THEN "key" ELSE ""

\* lines 148-153: the warning to show, or "" when every input is present
Validate(text, key, template) ==
    IF text = <<>> THEN "text"
    ELSE IF key = <<>> THEN "key"
    ELSE IF template = "None" THEN "template"
    ELSE ""

\* a faulty test that always goes on: C10 must tell it from the code's
ProceedAlways(structured_slides) == TRUE

\* line 159: if structured_slides
Proceed(structured_slides) == Truthy(structured_slides)

VARIABLES
    input_text,          \* st.text_area
    guidance_text,       \* st.text_input
    api_key,             \* st.text_input, masked
    uploaded_template,   \* st.file_uploader: "None" or "file"
    pc,                  \* where the handler of the button is
    messages,            \* what st.warning, st.error and st.success have shown
    llm_requests,        \* the chat requests sent
    raw_content,         \* the reply as received
    json_input,          \* the argument json.loads was called with
    structured_slides,   \* line 157
    create_calls,        \* how often create_presentation was called
    template_file,       \* what Presentation(template_file) read from the upload
    presentation_buffer, \* line 161
    download             \* what st.download_button offers

vars == <<input_text, guidance_text, api_key, uploaded_template, pc, messages,
          llm_requests, raw_content, json_input, structured_slides, create_calls,
          template_file, presentation_buffer, download>>

inputs == <<input_text, guidance_text, api_key, uploaded_template>>

NotCalled == [called |-> FALSE, text |-> <<>>]
\* the upload before anything has read it
Unread == [opens |-> FALSE, layouts |-> <<>>, nslides |-> 0]

Init ==
    /\ input_text \in {<<>>, <<"x">>}
    /\ guidance_text \in {<<>>, <<"g">>}
    /\ api_key \in {<<>>, <<"k">>}
    /\ uploaded_template \in {"None", "file"}
    /\ pc = "idle"
    /\ messages = <<>>
    /\ llm_requests = <<>>
    /\ raw_content = <<>>
    /\ json_input = NotCalled
    /\ structured_slides = None
    /\ create_calls = 0
    /\ template_file = Unread
    /\ presentation_buffer = NoBuffer
    /\ download = NoBuffer

\* lines 146-155: the button is pressed and the inputs are validated
Click ==
    /\ pc = "idle"
    /\ LET w == Validate(input_text, api_key, uploaded_template) IN
       IF w # ""
       THEN /\ messages' = Append(messages, Message("warning", "shell", w))
            /\ pc' = "done"
       ELSE /\ messages' = messages
            /\ pc' = "get_slides"
    /\ UNCHANGED <<inputs, llm_requests, raw_content, json_input, structured_slides,
                   create_calls, template_file, presentation_buffer, download>>

\* line 19: the guidance the prompt carries
PromptGuidance(guidance) ==
    IF guidance # <<>> THEN guidance ELSE <<"s", "t", "a", "n", "d", "a", "r", "d">>

\* lines 9-51 with the request raising e
LLMRaises(e) ==
    /\ raw_content' = <<>>
    /\ json_input' = NotCalled
    /\ structured_slides' = LLMExcept(messages, e).result
    /\ messages' = LLMExcept(messages, e).messages

\* lines 9-51 with the request answered by reply
LLMReplies(reply) ==
    /\ raw_content' = reply
    /\ json_input' = [called |-> TRUE, text |-> Unfence(reply)]
    /\ IF Loads(Unfence(reply)).ok
       THEN /\ structured_slides' = Loads(Unfence(reply)).val
            /\ messages' = messages
       ELSE /\ structured_slides' = LLMExcept(messages, "json").result
            /\ messages' = LLMExcept(messages, "json").messages

\* line 157: get_slide_structure_from_llm(input_text, guidance_text, api_key)
GetSlideStructureFromLLM ==
    /\ pc = "get_slides"
    /\ llm_requests' = Append(llm_requests,
           [key |-> api_key, text |-> input_text, guidance |-> PromptGuidance(guidance_text)])
    /\ \/ \E e \in LLMErrors : LLMRaises(e)
       \/ \E reply \in Replies : LLMReplies(reply)
    /\ pc' = "check_slides"
    /\ UNCHANGED <<inputs, create_calls, template_file, presentation_buffer, download>>

\* line 159; the requester's locals are gone
CheckSlides ==
    /\ pc = "check_slides"
    /\ pc' = IF Proceed(structured_slides) THEN "create" ELSE "done"
    /\ raw_content' = <<>>
    /\ json_input' = NotCalled
    /\ UNCHANGED <<inputs, messages, llm_requests, structured_slides, create_calls,
                   template_file, presentation_buffer, download>>

\* line 161: create_presentation(structured_slides, uploaded_template)
CreatePresentation ==
    /\ pc = "create"
    /\ create_calls' = create_calls + 1
    /\ \E template \in TemplateFiles :
          LET r == BuildDeck(structured_slides, template) IN
          /\ template_file' = template
          /\ presentation_buffer' = r.buffer
          /\ messages' = IF r.ok THEN messages
                         ELSE Append(messages, Message("error", "deck", r.cause))
    /\ pc' = "check_buffer"
    /\ UNCHANGED <<inputs, llm_requests, raw_content, json_input, structured_slides,
                   download>>

\* lines 163-173
OfferDownload ==
    /\ pc = "check_buffer"
    /\ IF presentation_buffer.present
       THEN /\ messages' = Append(messages, Message("success", "shell", "ready"))
            /\ download' = presentation_buffer
       ELSE UNCHANGED <<messages, download>>
    /\ pc' = "done"
    /\ UNCHANGED <<inputs, llm_requests, raw_content, json_input, structured_slides,
                   create_calls, template_file, presentation_buffer>>

Next ==
    \/ Click
    \/ GetSlideStructureFromLLM
    \/ CheckSlides
    \/ CreatePresentation
    \/ OfferDownload

Spec == Init /\ [][Next]_vars

\* ------------------------------------------------------------ properties
\* create_presentation has returned
AfterCreate == pc \in {"check_buffer", "done"} /\ create_calls = 1

HasKey(r, key) == r.kind = "obj" /\ \E i \in 1..Len(r.members) : r.members[i].key = key

ValueOf(r, key) == r.members[CHOOSE i \in 1..Len(r.members) : r.members[i].key = key].val

\* the title a record asks for: its "title", or the empty string
TitleOf(r) == IF HasKey(r, KeyTitle) THEN ValueOf(r, KeyTitle).str ELSE <<>>

AllStrings(items) == \A i \in 1..Len(items) : items[i].kind = "str"

\* a slide record: an object whose title, when given, is a string and whose
\* content, when it is a list, is a list of strings
IsSlideRecord(r) ==
    /\ r.kind = "obj"
    /\ HasKey(r, KeyTitle) => ValueOf(r, KeyTitle).kind = "str"
    /\ (HasKey(r, KeyContent) /\ ValueOf(r, KeyContent).kind = "arr")
          => AllStrings(ValueOf(r, KeyContent).items)

IsOutlineOfRecords(v) ==
    v.kind = "arr" /\ \A i \in 1..Len(v.items) : IsSlideRecord(v.items[i])

\* the reply format of the prompt: [{title: string, content: [string, ...]}, ...]
MatchesSchema(v) ==
    /\ v.kind = "arr"
    /\ \A i \in 1..Len(v.items) :
          /\ HasKey(v.items[i], KeyTitle) /\ ValueOf(v.items[i], KeyTitle).kind = "str"
          /\ HasKey(v.items[i], KeyContent) /\ ValueOf(v.items[i], KeyContent).kind = "arr"
          /\ AllStrings(ValueOf(v.items[i], KeyContent).items)

BothWords(name) ==
    Contains(name, <<"T", "i", "t", "l", "e">>) /\ Contains(name, <<"C", "o", "n", "t", "e", "n", "t">>)

\* a layout can be selected: one matches by name, or position 1 exists
UsableLayouts(layouts) ==
    (\E i \in 1..Len(layouts) : BothWords(layouts[i].name)) \/ Len(layouts) >= 2

HasMessage(level, origin) ==
    \E i \in 1..Len(messages) : messages[i].level = level /\ messages[i].origin = origin

\* the slide built for record i of the outline
SlideFor(i) == presentation_buffer.slides[template_file.nslides + i]

\* C1: when create_presentation returns a buffer for an outline of N records,
\* the document holds the template's slides followed by exactly N new slides,
\* the i-th of them built from the i-th record; and for an outline of slide
\* records and a template that opens with a selectable layout it does return
\* a buffer.
C1_OneSlidePerRecordInOrder ==
    (AfterCreate /\ structured_slides.kind = "arr") =>
        LET records == structured_slides.items
            slides == presentation_buffer.slides
            n0 == template_file.nslides
        IN  /\ presentation_buffer.present =>
                /\ Len(slides) = n0 + Len(records)
                /\ \A i \in 1..n0 : ~slides[i].new
                /\ \A i \in 1..Len(records) :
                      /\ slides[n0 + i].new
                      /\ slides[n0 + i].has_title => slides[n0 + i].title = TitleOf(records[i])
            /\ (/\ IsOutlineOfRecords(structured_slides)
                /\ template_file.opens
                /\ UsableLayouts(template_file.layouts)) => presentation_buffer.present

\* two records with different titles, the second without content, on a
\* template that already holds a slide
C1_Witness ==
    /\ pc = "done" /\ download.present /\ structured_slides.kind = "arr"
    /\ Len(structured_slides.items) = 2
    /\ template_file.nslides = 1
    /\ ~HasKey(structured_slides.items[2], KeyContent)
    /\ SlideFor(1).has_title
    /\ SlideFor(1).title # SlideFor(2).title

\* C2: every new slide uses one layout: the first, in the template's order,
\* whose name contains both "Title" and "Content", and the layout at position
\* 1 (counted from 0) when no name contains both.
C2_LayoutSelection ==
    (AfterCreate /\ presentation_buffer.present) =>
        LET layouts == presentation_buffer.layouts
            matches == {i \in 1..Len(layouts) : BothWords(layouts[i].name)}
            chosen == IF matches # {}
                      THEN (CHOOSE i \in matches : \A j \in matches : i <= j) - 1
                      ELSE 1
        IN  \A k \in 1..Len(presentation_buffer.slides) :
                presentation_buffer.slides[k].new =>
                    presentation_buffer.slides[k].layout = chosen

\* no name matches, and the slides sit on the layout at position 1
C2_Witness ==
    /\ pc = "done" /\ download.present
    /\ \A i \in 1..Len(download.layouts) : ~BothWords(download.layouts[i].name)
    /\ \E k \in 1..Len(download.slides) :
          download.slides[k].new /\ download.slides[k].layout = 1

C4_NoContentLeavesBodyCleared ==
    (AfterCreate /\ presentation_buffer.present /\ structured_slides.kind = "arr") =>
        \A i \in 1..Len(structured_slides.items) :
            LET r == structured_slides.items[i] IN
            (/\ r.kind = "obj"
             /\ \/ ~HasKey(r, KeyContent)
                \/ ValueOf(r, KeyContent).kind # "arr"
                \/ ValueOf(r, KeyContent).items = <<>>) =>
                /\ template_file.nslides + i <= Len(presentation_buffer.slides)
                /\ SlideFor(i).new
                /\ SlideFor(i).has_title => SlideFor(i).title = TitleOf(r)
                /\ SlideFor(i).has_body => SlideFor(i).body = <<[text |-> <<>>, level |-> 0]>>

\* a record whose content is a string, on a slide with title and body
C4_Witness ==
    /\ pc = "done" /\ download.present /\ structured_slides.kind = "arr"
    /\ \E i \in 1..Len(structured_slides.items) :
          /\ HasKey(structured_slides.items[i], KeyContent)
          /\ ValueOf(structured_slides.items[i], KeyContent).kind = "str"
          /\ SlideFor(i).has_body /\ SlideFor(i).has_title
          /\ SlideFor(i).title # <<>>

\* the JSON texts of the replies, and each with a line break on either side
FencedTexts ==
    {[json |-> J, reply |-> FenceOpen \o J \o FenceClose] :
        J \in JsonTexts \cup {<<"\n">> \o K \o <<"\n">> : K \in JsonTexts}}

\* C5: a reply that is the opening fence, a JSON text J and the closing fence
\* hands exactly J to json.loads and returns what J parses to; a reply that
\* is itself JSON is handed to json.loads unchanged.
C5_FenceStripping ==
    pc = "check_slides" =>
        /\ \A p \in FencedTexts :
              (raw_content = p.reply /\ Loads(p.json).ok) =>
                  /\ json_input = [called |-> TRUE, text |-> p.json]
                  /\ structured_slides = Loads(p.json).val
        /\ (json_input.called /\ Loads(raw_content).ok) =>
              /\ json_input.text = raw_content
              /\ structured_slides = Loads(raw_content).val

\* a fenced outline of one record was unwrapped and parsed
C5_Witness ==
    /\ pc = "check_slides"
    /\ \E p \in FencedTexts : raw_content = p.reply /\ Len(p.json) > 2
    /\ structured_slides.kind = "arr" /\ Len(structured_slides.items) = 1

\* C6: once the button is pressed with the text, the key or the template
\* missing, no LLM request is sent, create_presentation is not called, no
\* download is offered, and one warning is shown.
C6_MissingInputOnlyWarns ==
    (pc # "idle" /\ (input_text = <<>> \/ api_key = <<>> \/ uploaded_template = "None")) =>
        /\ pc = "done"
        /\ llm_requests = <<>>
        /\ create_calls = 0
        /\ ~download.present
        /\ Len(messages) = 1 /\ messages[1].level = "warning"

\* only the template is missing
C6_Witness ==
    /\ pc = "done" /\ input_text # <<>> /\ api_key # <<>> /\ uploaded_template = "None"
    /\ messages = <<[level |-> "warning", origin |-> "shell", cause |-> "template"]>>

\* C7 as claimed: whenever the requester has not produced an outline that
\* matches the schema (the request raised, the reply was no JSON, or it was
\* JSON of another shape), it has reported an error and returned None, and
\* create_presentation is never called.
C7_SchemaMismatchIsCaught ==
    (pc \notin {"idle", "get_slides"} /\ llm_requests # <<>>
        /\ ~MatchesSchema(structured_slides)) =>
        /\ structured_slides = None
        /\ HasMessage("error", "llm")
        /\ create_calls = 0

\* C7, amended: a request that raises and a reply that is no JSON are
\* caught: the requester reports one error naming the cause and returns None,
\* and from then on create_presentation is not called and no deck exists.  A
\* reply that is JSON is returned as parsed, whatever its shape, with no
\* error reported.
C7_FailuresCaughtJsonReturned ==
    /\ pc = "check_slides" =>
          IF json_input.called /\ Loads(json_input.text).ok
          THEN structured_slides = Loads(json_input.text).val /\ messages = <<>>
          ELSE /\ structured_slides = None
               /\ Len(messages) = 1
               /\ messages[1].level = "error" /\ messages[1].origin = "llm"
               /\ messages[1].cause = IF json_input.called THEN "json" ELSE messages[1].cause
               /\ messages[1].cause \in {"network", "auth", "json"}
    /\ HasMessage("error", "llm") =>
          /\ structured_slides = None
          /\ pc \in {"check_slides", "done"}
          /\ create_calls = 0 /\ ~presentation_buffer.present /\ ~download.present

\* a reply that is no JSON ended the run
C7_Witness ==
    /\ pc = "done"
    /\ messages = <<[level |-> "error", origin |-> "llm", cause |-> "json"]>>
    /\ create_calls = 0

\* C8: a run whose inputs pass validation ends with a download offered or
\* with an error message reported.
C8_NeverSilent ==
    (pc = "done" /\ input_text # <<>> /\ api_key # <<>> /\ uploaded_template # "None") =>
        \/ download.present
        \/ \E i \in 1..Len(messages) : messages[i].level = "error"

\* C9 as claimed: with an outline of slide records returned and a template
\* that opens with a selectable layout, the download is offered and its
\* slide count is the length of the outline.
C9_SlideCountIsOutlineLength ==
    (/\ pc = "done" /\ create_calls = 1
     /\ IsOutlineOfRecords(structured_slides)
     /\ template_file.opens /\ UsableLayouts(template_file.layouts)) =>
        /\ download.present
        /\ Len(download.slides) = Len(structured_slides.items)

\* C9, amended: in that case the download is offered, it is not empty, and
\* its slide count is the number of slides the template already holds plus
\* the length of the outline.
C9_SlideCountAddsToTemplate ==
    (/\ pc = "done" /\ create_calls = 1
     /\ IsOutlineOfRecords(structured_slides)
     /\ template_file.opens /\ UsableLayouts(template_file.layouts)) =>
        /\ download.present
        /\ Len(download.slides) > 0
        /\ Len(download.slides) = template_file.nslides + Len(structured_slides.items)

\* a deck offered on a template that held a slide
C9_Witness ==
    /\ pc = "done" /\ download.present
    /\ IsOutlineOfRecords(structured_slides)
    /\ template_file.nslides = 1
    /\ Len(download.slides) = 1 + Len(structured_slides.items)

\* C10: at most one LLM request; create_presentation is called at most once
\* and only with a result the requester returned; a download is offered only
\* of a buffer create_presentation returned; and when the template does not
\* open or no layout can be selected, create_presentation reports an error,
\* returns nothing, and no download is offered.
C10_PipelineOrder ==
    /\ Len(llm_requests) <= 1
    /\ create_calls <= 1
    /\ (create_calls = 1 \/ pc = "create") =>
          /\ Len(llm_requests) = 1
          /\ structured_slides # None /\ Truthy(structured_slides)
          /\ ~HasMessage("error", "llm")
    /\ presentation_buffer.present => create_calls = 1
    /\ download.present =>
          /\ pc = "done" /\ create_calls = 1
          /\ presentation_buffer.present /\ download = presentation_buffer
    /\ (AfterCreate /\ ~(template_file.opens /\ UsableLayouts(template_file.layouts))) =>
          /\ ~presentation_buffer.present
          /\ ~download.present
    /\ (AfterCreate /\ ~presentation_buffer.present) =>
          /\ HasMessage("error", "deck")
          /\ ~download.present

\* a template with one layout, whose name does not match
C10_Witness ==
    /\ pc = "done" /\ create_calls = 1
    /\ template_file.opens /\ Len(template_file.layouts) = 1
    /\ ~BothWords(template_file.layouts[1].name)
    /\ messages = <<[level |-> "error", origin |-> "deck", cause |-> "layout"]>>
    /\ ~download.present
====
